---------------------------- MODULE Spec2Model ----------------------------
(***************************************************************************)
(* TgClient (src/tg_tui/tg.py): the catalog `_videos`, the download slot   *)
(* map `_loading`, the subscriber list `_download_callbacks` and the       *)
(* operations on them, as a state machine.                                 *)
(*                                                                         *)
(* Python dicts keep insertion order and the code depends on it            *)
(* (`videos[-1]`, the scan of `_loading.items()`), so both dicts are       *)
(* sequences of entries in insertion order.                                *)
(*                                                                         *)
(* A TgVideo is a mutable object.  Its fields are written in one place     *)
(* only, `_update_file_handler`, which reaches the object through          *)
(* `_videos`.  A reference to a TgVideo is therefore either a reference to *)
(* the object `_videos` holds now for its file_id (its fields are read     *)
(* from the catalog), or a reference to an object that has left `_videos`  *)
(* (replaced by a refetch, or popped by delete_message), whose fields can  *)
(* no longer change and are kept as a snapshot.                            *)
(*                                                                         *)
(* caption, duration and source_group of TgVideo are copied from the       *)
(* message and read by no operation modelled here; two TgVideo built from  *)
(* the same message agree on them, so `==` on TgVideo is decided by the    *)
(* fields kept below.                                                      *)
(*                                                                         *)
(* VideoList (src/tg_tui/tui.py) shows the catalog through                 *)
(* ScrollableListMixin: `focused_index`, `render_offset` and the widget's  *)
(* height are part of the state as well.                                   *)
(*                                                                         *)
(* TgClient's methods are called on the control thread (the asyncio loop   *)
(* of the application) and _update_file_handler on the thread on which the *)
(* remote client delivers updates.  Where one operation is one action it   *)
(* runs alone; SpecThreads runs the two threads statement by statement,    *)
(* `handler` and `control` holding each thread's position and locals.      *)
(***************************************************************************)
EXTENDS Integers, Sequences, FiniteSets, TLC

VARIABLES
    history,     \* the chat history the remote client holds, newest message first
    videos,      \* TgClient._videos: entries in insertion order, keyed by file_id
    loading,     \* TgClient._loading: <<slot, video reference>> in insertion order
    callbacks,   \* TgClient._download_callbacks
    last,        \* what the last operation did: its name, argument, outcome,
                 \* the remote calls it issued and the subscribers it invoked
    focused_index,  \* ScrollableListMixin.focused_index of the video list
    render_offset,  \* ScrollableListMixin.render_offset of the video list
    size_height,    \* self.size.height of the video list
    handler,     \* SpecThreads: the thread running _update_file_handler
    control      \* SpecThreads: the control thread

vars == <<history, videos, loading, callbacks, last,
          focused_index, render_offset, size_height, handler, control>>

\* the state of the video list
view == <<focused_index, render_offset, size_height>>

\* the positions of the two threads
threads == <<handler, control>>

---------------------------------------------------------------------------
(* Bounds of the model *)

\* downloaded_size reported by the transport ranges over 0..MaxSize
MaxSize == 2
\* Spec starts no download once this many slots are occupied
MaxActive == 2
\* SpecSubscribers and SpecCatalog start none once this many are occupied
MaxSubscriberActive == 1
MaxCatalogActive == 1
\* longest subscriber list
MaxCallbacks == 2
\* number of distinct items of the catalog of SpecFill
FillItems == 32
\* number of videos of the chat of SpecScroll and SpecView
ViewItems == 12
\* largest available_height of the video list
MaxHeight == 5
\* _scroll is applied to every delta of -MaxDelta..MaxDelta
MaxDelta == 13
\* SpecView lists at most this many videos at startup
MaxViewItems == 4
\* SpecThreads starts no download once this many slots are occupied
MaxThreadActive == 2

(* Program constants *)

\* download_video: range(2, 33)
FirstSlot == 2
LastSlot == 32
\* list_videos(limit=100), load_next(limit=10)
ListLimit == 100
NextLimit == 10

\* VideoList.available_height: self.size.height - 3
BorderRows == 3
\* focused_index = Reactive(None): no item focused
NoFocus == -1

Slots == FirstSlot..LastSlot

\* Python None in a string field (local_path)
None == "None"

\* TgVideo.album: None, or the list of sibling message ids
NoAlbum == [some |-> FALSE, ids |-> <<>>]
Album(ids) == [some |-> TRUE, ids |-> ids]

\* the subscribers: DownloadList._video_updated, which the download list
\* registers when it is built, and one more
Callbacks == {"video_updated", "other"}

---------------------------------------------------------------------------
(* The remote chat history, newest message first.  video = 0: the message  *)
(* carries no video; otherwise video is the file id and size its size.     *)
(* File 1 was posted twice (messages 6 and 2); messages 5, 4, 3 are one    *)
(* album of a video with two text siblings.                                *)
History ==
    << [id |-> 6, media_album_id |-> "0", video |-> 1, size |-> 2],
       [id |-> 5, media_album_id |-> "a", video |-> 0, size |-> 0],
       [id |-> 4, media_album_id |-> "a", video |-> 2, size |-> 1],
       [id |-> 3, media_album_id |-> "a", video |-> 0, size |-> 0],
       [id |-> 2, media_album_id |-> "0", video |-> 1, size |-> 2] >>

\* the file ids of the history, and a file id the catalog never lists
FileIds == {1, 2}
OtherFileIds == {3}

\* the history of SpecFill: FillItems videos, one per message, no albums
FillHistory ==
    [i \in 1..FillItems |->
        [id |-> FillItems + 1 - i, media_album_id |-> "0", video |-> i, size |-> 2]]

\* the history of SpecScroll and SpecView: ViewItems videos, no albums
ViewHistory ==
    [i \in 1..ViewItems |->
        [id |-> ViewItems + 1 - i, media_album_id |-> "0", video |-> i, size |-> 2]]

---------------------------------------------------------------------------
(* Sequence helpers *)

Range(s) == {s[i] : i \in 1..Len(s)}

RemoveAt(s, i) == SubSeq(s, 1, i - 1) \o SubSeq(s, i + 1, Len(s))

\* index of the first entry of s satisfying Test, 0 if none
FirstIndex(s, Test(_)) ==
    LET hits == {i \in 1..Len(s) : Test(s[i])}
    IN  IF hits = {} THEN 0 ELSE CHOOSE i \in hits : \A j \in hits : i <= j

\* d[key] = value on a dict kept as a sequence: an existing key keeps its
\* position and takes the new value, a new key goes to the end
DictSetAppend(d, v) == Append(d, v)
DictSet(d, v) ==
    LET i == FirstIndex(d, LAMBDA e : e.file_id = v.file_id)
    IN  IF i = 0 THEN Append(d, v) ELSE [d EXCEPT ![i] = v]

---------------------------------------------------------------------------
(* TgVideo and references to it *)

NoVideo ==
    [file_id |-> 0, message_id |-> 0, expected_size |-> 0, downloaded_size |-> 0,
     local_path |-> None, album |-> NoAlbum]

\* dict lookup: self._videos.get(file_id); NoVideo stands for None
VideoOfOrFirst(vs, fid) ==
    LET i == FirstIndex(vs, LAMBDA v : v.file_id = fid)
    IN  IF vs = <<>> THEN NoVideo ELSE IF i = 0 THEN vs[1] ELSE vs[i]
VideoOf(vs, fid) ==
    LET i == FirstIndex(vs, LAMBDA v : v.file_id = fid)
    IN  IF i = 0 THEN NoVideo ELSE vs[i]

HasVideo(vs, fid) == \E i \in 1..Len(vs) : vs[i].file_id = fid

\* a reference to the object _videos holds for fid
Live(fid) == [file_id |-> fid, stale |-> FALSE, snap |-> NoVideo]
\* a reference to an object that is no longer in _videos
Stale(v) == [file_id |-> v.file_id, stale |-> TRUE, snap |-> v]

\* the fields of the object a reference points to
Deref(vs, r) == IF r.stale THEN r.snap ELSE VideoOf(vs, r.file_id)

\* TgVideo.completed
Completed(v) == v.expected_size = v.downloaded_size

\* dataclass __eq__: field-wise comparison
VideoEq(a, b) == a = b

---------------------------------------------------------------------------
(* SlotScheduler part of TgClient *)

Keys(ld) == {ld[i].slot : i \in 1..Len(ld)}

\* download_video, the for/else: the first i of range(2, 33) that is not a
\* key of _loading; 0 when the loop ends without break
RECURSIVE ScanFreePastEnd(_, _)
ScanFreePastEnd(ld, i) ==
    IF i > LastSlot + 1 THEN 0
    ELSE IF i \notin Keys(ld) THEN i
    ELSE ScanFreePastEnd(ld, i + 1)
RECURSIVE ScanFree(_, _)
ScanFree(ld, i) ==
    IF i > LastSlot THEN 0
    ELSE IF i \notin Keys(ld) THEN i
    ELSE ScanFree(ld, i + 1)

FreeSlotAfterLast(ld) ==
    LET next == IF ld = <<>> THEN FirstSlot
                ELSE 1 + CHOOSE k \in Keys(ld) : \A j \in Keys(ld) : j <= k
    IN  IF next > LastSlot THEN ScanFree(ld, FirstSlot) ELSE next
FreeSlot(ld) == ScanFree(ld, FirstSlot)

\* _remove_from_queue: pops the first entry, in dict order, whose video == video
RemoveFromQueueFirst(vs, ld, v) == IF ld = <<>> THEN ld ELSE Tail(ld)
RemoveFromQueue(vs, ld, v) ==
    LET i == FirstIndex(ld, LAMBDA e : VideoEq(Deref(vs, e.video), v))
    IN  IF i = 0 THEN ld ELSE RemoveAt(ld, i)

\* the slots whose video is the item with this file id
SlotsOf(ld, fid) == {ld[i].slot : i \in {j \in 1..Len(ld) : ld[j].video.file_id = fid}}

Call(method, fid, priority, ids) ==
    [method |-> method, file_id |-> fid, priority |-> priority, message_ids |-> ids]

\* the record kept in `last`: the operation and the file id of its argument;
\* whether it raised; the slot download_video returned (0: None); the remote
\* calls it issued; the subscribers it called, in call order; for an event,
\* the local state it carried and the slots its item held when the
\* subscribers were called
NoLocal == [downloaded_size |-> 0, path |-> ""]

Last(op, fid, raised, result, calls, notified) ==
    [op |-> op, file_id |-> fid, raised |-> raised, result |-> result,
     calls |-> calls, notified |-> notified, local |-> NoLocal]

LastEvent(fid, path, size, raised, notified, slots) ==
    [op |-> "update_file_handler", file_id |-> fid, raised |-> raised, result |-> 0,
     calls |-> <<>>, notified |-> notified,
     local |-> [downloaded_size |-> size, path |-> path], slots |-> slots]

\* the references a caller can pass: the catalog's objects (self.videos) and
\* the objects it passed before and that are still in _loading
Handles == {Live(videos[i].file_id) : i \in 1..Len(videos)}
           \cup {loading[i].video : i \in 1..Len(loading)}

\* download_video(video); ok: the downloadFile call succeeds
download_video(r, ok) ==
    LET i == FreeSlot(loading)
    IN  /\ IF i = 0
           THEN /\ loading' = loading
                /\ last' = Last("download_video", r.file_id, FALSE, 0, <<>>, <<>>)
           ELSE /\ loading' = Append(loading, [slot |-> i, video |-> r])
                \* _call raises TgException after _loading[i] was set
                /\ last' = Last("download_video", r.file_id, ~ok, IF ok THEN i ELSE 0,
                                <<Call("downloadFile", r.file_id, i, <<>>)>>, <<>>)
        /\ UNCHANGED <<history, videos, callbacks>>

\* cancel_download_video(video); ok: the cancelDownloadFile call succeeds
cancel_download_video(r, ok) ==
    /\ loading' = RemoveFromQueue(videos, loading, Deref(videos, r))
    /\ last' = Last("cancel_download_video", r.file_id, ~ok, 0,
                    <<Call("cancelDownloadFile", r.file_id, 0, <<>>)>>, <<>>)
    /\ UNCHANGED <<history, videos, callbacks>>

---------------------------------------------------------------------------
(* UpdateDispatcher part of TgClient *)

add_download_callback(cb) ==
    /\ Len(callbacks) < MaxCallbacks
    /\ callbacks' = Append(callbacks, cb)
    /\ last' = Last("add_download_callback", 0, FALSE, 0, <<>>, <<>>)
    /\ UNCHANGED <<history, videos, loading>>

\* list.remove: removes the first occurrence
remove_download_callback(cb) ==
    /\ callbacks' = (LET i == FirstIndex(callbacks, LAMBDA c : c = cb)
                     IN  IF i = 0 THEN callbacks ELSE RemoveAt(callbacks, i))
    /\ last' = Last("remove_download_callback", 0, FALSE, 0, <<>>, <<>>)
    /\ UNCHANGED <<history, videos, loading>>

\* video.local_path = local_file['path'] or None
PathOrNone(path) == IF path = "" THEN None ELSE path

\* the two field assignments of _update_file_handler
Updated(v, path, size) ==
    [v EXCEPT !.local_path = PathOrNone(path), !.downloaded_size = size]

\* the for loop over _download_callbacks: the callbacks are called in list
\* order; failAt = 0: none raises; failAt = k: the k-th raises, which ends the
\* loop and the handler
Notified(cbs, failAt) == IF failAt = 0 THEN cbs ELSE SubSeq(cbs, 1, failAt)

\* _update_file_handler(event), event = {file: {id, local: {path, downloaded_size}}}
update_file_handler(fid, path, size, failAt) ==
    LET video == VideoOf(videos, fid)
    IN  IF video = NoVideo
        THEN /\ last' = LastEvent(fid, path, size, FALSE, <<>>, {})
             /\ UNCHANGED <<history, videos, loading, callbacks>>
        ELSE LET nv == Updated(video, path, size)
                 vs == DictSet(videos, nv)
                 \* the removal comes before the loop over the callbacks
                 ld == IF Completed(nv) THEN RemoveFromQueue(vs, loading, nv)
                       ELSE loading
             IN  /\ videos' = vs
                 /\ loading' = ld
                 /\ last' = LastEvent(fid, path, size, failAt # 0,
                                      Notified(callbacks, failAt), SlotsOf(ld, fid))
                 /\ UNCHANGED <<history, callbacks>>

---------------------------------------------------------------------------
(* Catalog part of TgClient *)

RECURSIVE DictUpdate(_, _)
\* {**d, **page}
DictUpdate(d, page) ==
    IF page = <<>> THEN d ELSE DictUpdate(DictSet(d, Head(page)), Tail(page))

\* get_chat_history(chat_id, limit, from_message_id): the messages older than
\* from_message_id (0: from the newest one), newest first.  The remote client
\* returns at most limit of them, and may return fewer: Pages is every
\* answer it can give.
Older(hist, from_message_id) ==
    SelectSeq(hist, LAMBDA m : from_message_id = 0 \/ m.id < from_message_id)

Min(a, b) == IF a < b THEN a ELSE b

Pages(hist, limit, from_message_id) ==
    LET older == Older(hist, from_message_id)
    IN  IF older = <<>> THEN {<<>>}
        ELSE {SubSeq(older, 1, n) : n \in 1..Min(limit, Len(older))}

\* albums[album_id] at the end of _fetch_page: the ids of the messages of the
\* album that carry no video, in page order (the list is shared by the videos
\* of the album and is appended to after they were built)
AlbumOf(messages, album_id) ==
    LET sib == SelectSeq(messages, LAMBDA m : m.media_album_id = album_id /\ m.video = 0)
    IN  Album([i \in 1..Len(sib) |-> sib[i].id])

\* the TgVideo _fetch_page builds for a message with a video; local: the
\* file's local state as the remote client reports it (path is not
\* normalised here, unlike in _update_file_handler)
FetchedVideo(messages, m, local) ==
    [file_id |-> m.video, message_id |-> m.id, expected_size |-> m.size,
     downloaded_size |-> local[m.video].downloaded_size,
     local_path |-> local[m.video].path,
     album |-> IF m.media_album_id # "0" THEN AlbumOf(messages, m.media_album_id)
               ELSE NoAlbum]

\* _fetch_page: the dict built by the loop over the messages of one page.
\* `videos[file_id] = TgVideo(...)` puts a key where its first assignment put
\* it and leaves it the value of its last assignment: the keys are the file
\* ids in the order of their first message, each with the TgVideo of its last
\* message.
FetchPage(messages, local) ==
    LET withVideo == SelectSeq(messages, LAMBDA m : m.video # 0)
        n         == Len(withVideo)
        IsFirst(k) == \A j \in 1..(k - 1) : withVideo[j].video # withVideo[k].video
        IsLast(k)  == \A j \in (k + 1)..n : withVideo[j].video # withVideo[k].video
        keys      == SelectSeq([k \in 1..n |-> k], IsFirst)
        LastOf(k) == CHOOSE j \in k..n : withVideo[j].video = withVideo[k].video /\ IsLast(j)
    IN  [i \in 1..Len(keys) |-> FetchedVideo(messages, withVideo[LastOf(keys[i])], local)]

\* the local file states the remote client can report, in a fetched message
\* and in an updateFile event: the path of the local copy is empty until a
\* first part of the file has been stored
LocalStates ==
    {[downloaded_size |-> d, path |-> IF d = 0 THEN "" ELSE "p"] : d \in 0..MaxSize}

HistoryFileIds(hist) == {hist[i].video : i \in 1..Len(hist)} \ {0}

\* the objects of these file ids leave _videos: the references to them that
\* _loading holds keep pointing at the old objects
Detach(ld, vs, fids) ==
    [i \in 1..Len(ld) |->
        IF ~ld[i].video.stale /\ ld[i].video.file_id \in fids
        THEN [ld[i] EXCEPT !.video = Stale(VideoOf(vs, ld[i].video.file_id))]
        ELSE ld[i]]

FileIdsOf(vs) == {vs[i].file_id : i \in 1..Len(vs)}

\* self._videos = self._fetch_page(limit)
ListVideos(messages, local) ==
    /\ videos' = FetchPage(messages, local)
    /\ loading' = Detach(loading, videos, FileIdsOf(videos))

\* the record kept in `last` for list_videos and load_next: also the file
\* ids of the videos of the page that was fetched
LastFetch(op, raised, calls, seen) ==
    [op |-> op, file_id |-> 0, raised |-> raised, result |-> 0, calls |-> calls,
     notified |-> <<>>, local |-> NoLocal, seen |-> seen]

\* list_videos(limit=100); ok: get_chat_history succeeds
list_videos(messages, local, ok) ==
    /\ messages \in Pages(history, ListLimit, 0)
    /\ IF ok THEN ListVideos(messages, local) ELSE UNCHANGED <<videos, loading>>
    /\ last' = LastFetch("list_videos", ~ok, <<Call("get_chat_history", 0, 0, <<>>)>>,
                         IF ok THEN HistoryFileIds(messages) ELSE {})
    /\ UNCHANGED <<history, callbacks>>

\* the anchor of load_next: self.videos[-1].message_id
LastMessageId(vs) == vs[Len(vs)].message_id

\* the answers get_chat_history can give to load_next: to list_videos() when
\* the catalog is empty, else to _fetch_page(limit, last_message_id)
LoadNextPages ==
    IF videos = <<>> THEN Pages(history, ListLimit, 0)
    ELSE Pages(history, NextLimit, LastMessageId(videos))

\* load_next(limit=10); ok: get_chat_history succeeds
load_next(messages, local, ok) ==
    /\ messages \in LoadNextPages
    /\ IF ~ok THEN UNCHANGED <<videos, loading>>
       ELSE IF videos = <<>> THEN ListVideos(messages, local)
       ELSE LET page == FetchPage(messages, local)
            IN  /\ videos' = DictUpdate(videos, page)
                /\ loading' = Detach(loading, videos, FileIdsOf(page))
    /\ last' = LastFetch("load_next", ~ok,
                         <<Call("get_chat_history", 0, 0,
                                IF videos = <<>> THEN <<>> ELSE <<LastMessageId(videos)>>)>>,
                         IF ok THEN HistoryFileIds(messages) ELSE {})
    /\ UNCHANGED <<history, callbacks>>

\* delete_message: ids = [video.message_id] + video.album
MessageIdsOwn(v) == <<v.message_id>>
MessageIds(v) == IF v.album.some /\ v.album.ids # <<>> THEN <<v.message_id>> \o v.album.ids
                 ELSE <<v.message_id>>

\* dict.pop(key)
DictPop(d, fid) == SelectSeq(d, LAMBDA e : e.file_id # fid)

\* the record kept in `last` for delete_message: also the fields of the
\* TgVideo it was given and whether its remote call answered an error
LastDelete(v, raised, calls, failed) ==
    [op |-> "delete_message", file_id |-> v.file_id, raised |-> raised, result |-> 0,
     calls |-> calls, notified |-> <<>>, local |-> NoLocal, video |-> v,
     failed |-> failed]

\* delete_message(video); ok: the deleteMessages call succeeds.  After the
\* call, self._videos.pop(video.file_id) raises KeyError when the key is gone.
DeleteMessagePopFirst(r, ok) ==
    LET v   == Deref(videos, r)
        ids == MessageIds(v)
    IN  /\ history' = IF ok THEN SelectSeq(history, LAMBDA m : m.id \notin Range(ids))
                      ELSE history
        /\ videos' = DictPop(videos, v.file_id)
        /\ loading' = Detach(loading, videos, {v.file_id})
        /\ last' = LastDelete(v, ~ok \/ ~HasVideo(videos, v.file_id),
                              <<Call("deleteMessages", 0, 0, ids)>>, ~ok)
        /\ UNCHANGED callbacks
delete_message(r, ok) ==
    LET v   == Deref(videos, r)
        ids == MessageIds(v)
    IN  /\ IF ok
           THEN /\ history' = SelectSeq(history, LAMBDA m : m.id \notin Range(ids))
                /\ videos' = DictPop(videos, v.file_id)
                /\ loading' = Detach(loading, videos, {v.file_id})
           ELSE UNCHANGED <<history, videos, loading>>
        /\ last' = LastDelete(v, ~ok \/ ~HasVideo(videos, v.file_id),
                              <<Call("deleteMessages", 0, 0, ids)>>, ~ok)
        /\ UNCHANGED callbacks

---------------------------------------------------------------------------
(* VideoList: ScrollableListMixin over the catalog (tui.py).  Indexes are  *)
(* 0-based as in the code: item k of the list is its[k + 1].               *)

\* VideoList.available_height
available_height == size_height - BorderRows

\* VideoList.items with the initial video_filter (lambda v: True)
items == videos

\* ScrollableListMixin.focused_item; NoVideo stands for None
focused_item(its, fi) ==
    IF fi = NoFocus \/ fi >= Len(its) THEN NoVideo ELSE its[fi + 1]

\* `x in its`: some element == x
Contains(its, x) == \E i \in 1..Len(its) : VideoEq(its[i], x)

\* _check_offset(pos): the render_offset it leaves
CheckOffsetKeep(off, h, pos) == off
CheckOffset(off, h, pos) ==
    LET end == off + h - 1
    IN  IF pos > end THEN pos - h + 1
        ELSE IF pos < off THEN pos
        ELSE off

\* _scroll(delta) on the list its: the focused_index and render_offset it leaves
ScrollClamped(its, fi, off, h, delta) ==
    IF its = <<>> THEN [focused_index |-> NoFocus, render_offset |-> off]
    ELSE IF ~Contains(its, focused_item(its, fi))
    THEN [focused_index |-> 0, render_offset |-> 0]
    ELSE LET ln  == Len(its)
             sum == fi + delta
             new == IF sum < 0 THEN 0 ELSE IF sum > ln - 1 THEN ln - 1 ELSE sum
         IN  [focused_index |-> new, render_offset |-> CheckOffset(off, h, new)]
Scroll(its, fi, off, h, delta) ==
    IF its = <<>> THEN [focused_index |-> NoFocus, render_offset |-> off]
    ELSE IF ~Contains(its, focused_item(its, fi))
    THEN [focused_index |-> 0, render_offset |-> 0]
    ELSE LET ln  == Len(its)
             new == (ln + fi + delta) % ln
         IN  [focused_index |-> new, render_offset |-> CheckOffset(off, h, new)]

\* the record kept in `last` for a key of the video list
LastKey(op, delta) ==
    [op |-> op, file_id |-> 0, raised |-> FALSE, result |-> 0, calls |-> <<>>,
     notified |-> <<>>, local |-> NoLocal, delta |-> delta]

\* a key handler that calls self._scroll(delta)
scroll(op, delta) ==
    LET to == Scroll(items, focused_index, render_offset, available_height, delta)
    IN  /\ focused_index' = to.focused_index
        /\ render_offset' = to.render_offset
        /\ last' = LastKey(op, delta)
        /\ UNCHANGED <<history, videos, loading, callbacks, size_height, threads>>

key_down == scroll("key_down", 1)

key_up == scroll("key_up", -1)

key_pagedown == scroll("key_pagedown", available_height)

key_pageup == scroll("key_pageup", -available_height)

key_home ==
    /\ IF items = <<>> THEN UNCHANGED <<focused_index, render_offset>>
       ELSE /\ render_offset' = 0
            /\ focused_index' = 0
    /\ last' = LastKey("key_home", 0)
    /\ UNCHANGED <<history, videos, loading, callbacks, size_height, threads>>

key_end ==
    /\ IF items = <<>> THEN UNCHANGED <<focused_index, render_offset>>
       ELSE /\ render_offset' = CheckOffset(render_offset, available_height, Len(items) - 1)
            /\ focused_index' = Len(items) - 1
    /\ last' = LastKey("key_end", 0)
    /\ UNCHANGED <<history, videos, loading, callbacks, size_height, threads>>

\* the record kept in `last` for a click on row y of the widget
LastClick(y) ==
    [op |-> "on_click", file_id |-> 0, raised |-> FALSE, result |-> 0,
     calls |-> <<>>, notified |-> <<>>, local |-> NoLocal, y |-> y]

\* on_click at row y of the widget (event.y): the two border rows of the
\* Panel are ignored; render_offset is never touched
on_click(y) ==
    LET index == y + render_offset - 1
    IN  /\ IF y \in {0, size_height - 1} THEN UNCHANGED focused_index
           ELSE IF index < Len(items) THEN focused_index' = index
           ELSE UNCHANGED focused_index
        /\ last' = LastClick(y)
        /\ UNCHANGED <<history, videos, loading, callbacks, render_offset,
                       size_height, threads>>

\* VideoList.render: the index of the item drawn on row y of the widget, or
\* NoFocus when the row shows no item.  Row 0 is the top border of the
\* Panel, row 1 the header of the Table (show_header is on by default), and
\* rows 2.. show items[render_offset : render_offset + available_height]
RenderedAt(its, off, h, y) ==
    LET k == off + y - 2
    IN  IF y >= 2 /\ y - 2 < h /\ k < Len(its) THEN k ELSE NoFocus

\* key_d of the video list (under with_focused_item) and _delete: the
\* focused item is deleted and _scroll(0) follows; when delete_message
\* raises, _scroll is not reached
key_d(ok) ==
    LET item == focused_item(items, focused_index)
    IN  IF item = NoVideo
        THEN /\ last' = LastKey("key_d", 0)
             /\ UNCHANGED <<history, videos, loading, callbacks, view, threads>>
        ELSE /\ delete_message(Live(item.file_id), ok)
             /\ IF ok
                THEN LET to == Scroll(videos', focused_index, render_offset,
                                      available_height, 0)
                     IN  /\ focused_index' = to.focused_index
                         /\ render_offset' = to.render_offset
                ELSE UNCHANGED <<focused_index, render_offset>>
             /\ UNCHANGED <<size_height, threads>>

---------------------------------------------------------------------------
(* The two threads, statement by statement *)

\* a thread between two operations.  The locals of a thread: the event's
\* file id, path and size (handler), the video passed and the slot number i of
\* the scan (control); of the loop of _remove_from_queue, the number `it` of
\* entries the iterator has yielded, the size n of the dict when the iterator
\* was made, and the key and value it yielded last
HandlerIdle ==
    [pc |-> "idle", file_id |-> 0, path |-> "", size |-> 0, it |-> 0, n |-> 0,
     key |-> 0, value |-> Live(0)]

ControlIdle ==
    [pc |-> "idle", video |-> Live(0), i |-> 0, it |-> 0, n |-> 0,
     key |-> 0, value |-> Live(0)]

\* next() of the iterator of `self._loading.items()`: RuntimeError when the
\* size of the dict is not the one it had when the iterator was made
IterNext(ld, it, n) ==
    IF Len(ld) # n THEN "RuntimeError"
    ELSE IF it >= Len(ld) THEN "StopIteration"
    ELSE "item"

\* the iterator of thread t after another thread popped the entry at place p:
\* the entries it has yet to yield are the same as before
Shifted(t, p) ==
    IF t.pc \in {"next", "compare", "pop"} /\ p <= t.it THEN [t EXCEPT !.it = @ - 1]
    ELSE t

\* the place of key k in the dict, 0 if absent
PlaceOf(ld, k) == FirstIndex(ld, LAMBDA e : e.slot = k)

\* _update_file_handler, line by line
\* video = self._videos.get(event_file['id']); if not video: return
HandlerGet ==
    /\ handler.pc = "idle"
    /\ \E fid \in FileIds \cup OtherFileIds, local \in LocalStates :
           IF ~HasVideo(videos, fid)
           THEN /\ last' = LastEvent(fid, local.path, local.downloaded_size, FALSE, <<>>, {})
                /\ UNCHANGED handler
           ELSE /\ handler' = [HandlerIdle EXCEPT !.pc = "path", !.file_id = fid,
                                                  !.path = local.path,
                                                  !.size = local.downloaded_size]
                /\ UNCHANGED last
    /\ UNCHANGED <<history, videos, loading, callbacks, control, view>>

\* video.local_path = local_file['path'] or None
HandlerPath ==
    /\ handler.pc = "path"
    /\ videos' = DictSet(videos, [VideoOf(videos, handler.file_id) EXCEPT
                                     !.local_path = PathOrNone(handler.path)])
    /\ handler' = [handler EXCEPT !.pc = "size"]
    /\ UNCHANGED <<history, loading, callbacks, last, control, view>>

\* video.downloaded_size = local_file['downloaded_size']
HandlerSize ==
    /\ handler.pc = "size"
    /\ videos' = DictSet(videos, [VideoOf(videos, handler.file_id) EXCEPT
                                     !.downloaded_size = handler.size])
    /\ handler' = [handler EXCEPT !.pc = "completed"]
    /\ UNCHANGED <<history, loading, callbacks, last, control, view>>

\* if video.completed: self._remove_from_queue(video), which makes the iterator
HandlerCompleted ==
    /\ handler.pc = "completed"
    /\ handler' = IF Completed(VideoOf(videos, handler.file_id))
                  THEN [handler EXCEPT !.pc = "next", !.it = 0, !.n = Len(loading)]
                  ELSE [handler EXCEPT !.pc = "notify"]
    /\ UNCHANGED <<history, videos, loading, callbacks, last, control, view>>

\* for k, v in self._loading.items()
HandlerNext ==
    /\ handler.pc = "next"
    /\ LET step == IterNext(loading, handler.it, handler.n)
       IN  IF step = "RuntimeError"
           THEN /\ handler' = HandlerIdle
                /\ last' = LastEvent(handler.file_id, handler.path, handler.size, TRUE,
                                     <<>>, SlotsOf(loading, handler.file_id))
           ELSE IF step = "StopIteration"
           THEN /\ handler' = [handler EXCEPT !.pc = "notify"]
                /\ UNCHANGED last
           ELSE /\ handler' = [handler EXCEPT !.pc = "compare", !.it = @ + 1,
                                              !.key = loading[handler.it + 1].slot,
                                              !.value = loading[handler.it + 1].video]
                /\ UNCHANGED last
    /\ UNCHANGED <<history, videos, loading, callbacks, control, view>>

\* if v == video
HandlerCompare ==
    /\ handler.pc = "compare"
    /\ handler' = IF VideoEq(Deref(videos, handler.value), VideoOf(videos, handler.file_id))
                  THEN [handler EXCEPT !.pc = "pop"]
                  ELSE [handler EXCEPT !.pc = "next"]
    /\ UNCHANGED <<history, videos, loading, callbacks, last, control, view>>

\* self._loading.pop(k); break.  KeyError when the key is gone.
HandlerPop ==
    /\ handler.pc = "pop"
    /\ LET p == PlaceOf(loading, handler.key)
       IN  IF p = 0
           THEN /\ handler' = HandlerIdle
                /\ last' = LastEvent(handler.file_id, handler.path, handler.size, TRUE,
                                     <<>>, SlotsOf(loading, handler.file_id))
                /\ UNCHANGED <<loading, control>>
           ELSE /\ loading' = RemoveAt(loading, p)
                /\ handler' = [handler EXCEPT !.pc = "notify"]
                /\ control' = Shifted(control, p)
                /\ UNCHANGED last
    /\ UNCHANGED <<history, videos, callbacks, view>>

\* for cb in self._download_callbacks: cb(video)
HandlerNotify ==
    /\ handler.pc = "notify"
    /\ \E failAt \in 0..Len(callbacks) :
           last' = LastEvent(handler.file_id, handler.path, handler.size, failAt # 0,
                             Notified(callbacks, failAt),
                             SlotsOf(loading, handler.file_id))
    /\ handler' = HandlerIdle
    /\ UNCHANGED <<history, videos, loading, callbacks, control, view>>

\* download_video(video), line by line; it is called while fewer than
\* MaxThreadActive slots are occupied
ControlDownload ==
    /\ control.pc = "idle"
    /\ Len(loading) < MaxThreadActive
    /\ \E r \in Handles :
           control' = [ControlIdle EXCEPT !.pc = "scan", !.video = r, !.i = FirstSlot]
    /\ UNCHANGED <<history, videos, loading, callbacks, last, handler, view>>

\* for i in range(2, 33): if i not in self._loading: break / else: return
ControlScan ==
    /\ control.pc = "scan"
    /\ IF control.i \notin Keys(loading)
       THEN /\ control' = [control EXCEPT !.pc = "store"]
            /\ UNCHANGED last
       ELSE IF control.i = LastSlot
       THEN /\ control' = ControlIdle
            /\ last' = Last("download_video", control.video.file_id, FALSE, 0, <<>>, <<>>)
       ELSE /\ control' = [control EXCEPT !.i = @ + 1]
            /\ UNCHANGED last
    /\ UNCHANGED <<history, videos, loading, callbacks, handler, view>>

\* self._loading[i] = video
ControlStore ==
    /\ control.pc = "store"
    /\ LET p == PlaceOf(loading, control.i)
       IN  loading' = IF p = 0
                      THEN Append(loading, [slot |-> control.i, video |-> control.video])
                      ELSE [loading EXCEPT ![p].video = control.video]
    /\ control' = [control EXCEPT !.pc = "call"]
    /\ UNCHANGED <<history, videos, callbacks, last, handler, view>>

\* self._call('downloadFile', ...); return i
ControlCall ==
    /\ control.pc = "call"
    /\ \E fails \in BOOLEAN :
           last' = Last("download_video", control.video.file_id, fails,
                        IF fails THEN 0 ELSE control.i,
                        <<Call("downloadFile", control.video.file_id, control.i, <<>>)>>,
                        <<>>)
    /\ control' = ControlIdle
    /\ UNCHANGED <<history, videos, loading, callbacks, handler, view>>

\* cancel_download_video(video), line by line: _remove_from_queue makes the
\* iterator
ControlCancel ==
    /\ control.pc = "idle"
    /\ \E r \in Handles :
           control' = [ControlIdle EXCEPT !.pc = "next", !.video = r, !.it = 0,
                                          !.n = Len(loading)]
    /\ UNCHANGED <<history, videos, loading, callbacks, last, handler, view>>

ControlNext ==
    /\ control.pc = "next"
    /\ LET step == IterNext(loading, control.it, control.n)
       IN  IF step = "RuntimeError"
           THEN /\ control' = ControlIdle
                /\ last' = Last("cancel_download_video", control.video.file_id, TRUE, 0,
                                <<>>, <<>>)
           ELSE IF step = "StopIteration"
           THEN /\ control' = [control EXCEPT !.pc = "cancel_call"]
                /\ UNCHANGED last
           ELSE /\ control' = [control EXCEPT !.pc = "compare", !.it = @ + 1,
                                              !.key = loading[control.it + 1].slot,
                                              !.value = loading[control.it + 1].video]
                /\ UNCHANGED last
    /\ UNCHANGED <<history, videos, loading, callbacks, handler, view>>

ControlCompare ==
    /\ control.pc = "compare"
    /\ control' = IF VideoEq(Deref(videos, control.value), Deref(videos, control.video))
                  THEN [control EXCEPT !.pc = "pop"]
                  ELSE [control EXCEPT !.pc = "next"]
    /\ UNCHANGED <<history, videos, loading, callbacks, last, handler, view>>

ControlPop ==
    /\ control.pc = "pop"
    /\ LET p == PlaceOf(loading, control.key)
       IN  IF p = 0
           THEN /\ control' = ControlIdle
                /\ last' = Last("cancel_download_video", control.video.file_id, TRUE, 0,
                                <<>>, <<>>)
                /\ UNCHANGED <<loading, handler>>
           ELSE /\ loading' = RemoveAt(loading, p)
                /\ control' = [control EXCEPT !.pc = "cancel_call"]
                /\ handler' = Shifted(handler, p)
                /\ UNCHANGED last
    /\ UNCHANGED <<history, videos, callbacks, view>>

\* self._call('cancelDownloadFile', ...)
ControlCancelCall ==
    /\ control.pc = "cancel_call"
    /\ \E fails \in BOOLEAN :
           last' = Last("cancel_download_video", control.video.file_id, fails, 0,
                        <<Call("cancelDownloadFile", control.video.file_id, 0, <<>>)>>,
                        <<>>)
    /\ control' = ControlIdle
    /\ UNCHANGED <<history, videos, loading, callbacks, handler, view>>

---------------------------------------------------------------------------
(* The program.  MyApp.on_mount builds the client, lists the videos and    *)
(* builds the download list, which subscribes its _video_updated (tui.py:  *)
(* tg = TgClient(); tg.init(); tg.list_videos(); DownloadList(tg)): Init   *)
(* is every state this can end in.  From there the control thread calls    *)
(* the client's methods in any order and the remote client delivers any    *)
(* updateFile event at any time.                                           *)

\* the local states the remote client can report for the files of a page
Locals(messages) == [HistoryFileIds(messages) -> LocalStates]

\* the video list as built: nothing focused, not scrolled, h rows for items
InitList(h) ==
    /\ focused_index = NoFocus
    /\ render_offset = 0
    /\ size_height = h + BorderRows

InitThreads ==
    /\ handler = HandlerIdle
    /\ control = ControlIdle

Init ==
    /\ history = History
    /\ \E messages \in Pages(History, ListLimit, 0) :
           \E local \in Locals(messages) : videos = FetchPage(messages, local)
    /\ loading = <<>>
    /\ callbacks = <<"video_updated">>
    /\ last = Last("add_download_callback", 0, FALSE, 0, <<>>, <<>>)
    /\ InitList(MaxHeight)
    /\ InitThreads

\* every other widget and thread stays as it is
Rest == UNCHANGED <<view, threads>>

AddCallback == (\E cb \in Callbacks : add_download_callback(cb)) /\ Rest

RemoveCallback == (\E cb \in Callbacks : remove_download_callback(cb)) /\ Rest

FileEvent ==
    \E fid \in FileIds \cup OtherFileIds, local \in LocalStates :
        \E failAt \in 0..Len(callbacks) :
            /\ update_file_handler(fid, local.path, local.downloaded_size, failAt)
            /\ Rest

Start == (\E r \in Handles, fails \in BOOLEAN : download_video(r, ~fails)) /\ Rest

StartDownload == Len(loading) < MaxActive /\ Start

CancelDownload ==
    (\E r \in Handles, fails \in BOOLEAN : cancel_download_video(r, ~fails)) /\ Rest

Refetch ==
    \E messages \in Pages(history, ListLimit, 0), fails \in BOOLEAN :
        \E local \in Locals(messages) : list_videos(messages, local, ~fails) /\ Rest

LoadNext ==
    \E messages \in LoadNextPages, fails \in BOOLEAN :
        \E local \in Locals(messages) : load_next(messages, local, ~fails) /\ Rest

DeleteItem == (\E r \in Handles, fails \in BOOLEAN : delete_message(r, ~fails)) /\ Rest

\* the slot scheduler and the update dispatcher, on the catalog as listed at
\* startup and with the subscriber of the download list
Next ==
    \/ FileEvent
    \/ StartDownload
    \/ CancelDownload

Spec == Init /\ [][Next]_vars

\* the same with subscribers coming and going
StartSubscribed == Len(loading) < MaxSubscriberActive /\ Start

NextSubscribers ==
    \/ AddCallback
    \/ RemoveCallback
    \/ FileEvent
    \/ StartSubscribed
    \/ CancelDownload

SpecSubscribers == Init /\ [][NextSubscribers]_vars

\* the same with the catalog operations of the video list (keys r, n, d)
StartCatalog == Len(loading) < MaxCatalogActive /\ Start

NextCatalog ==
    \/ FileEvent
    \/ StartCatalog
    \/ CancelDownload
    \/ Refetch
    \/ LoadNext
    \/ DeleteItem

SpecCatalog == Init /\ [][NextCatalog]_vars

\* the catalog under the keys of the video list alone (r, n, d), with no
\* download started: every TgVideo passed is one the catalog holds
NextList ==
    \/ FileEvent
    \/ Refetch
    \/ LoadNext
    \/ DeleteItem

SpecList == Init /\ [][NextList]_vars

\* the scheduler filled up: the catalog lists FillItems videos, none of them
\* downloaded; each download is started for the first listed video that
\* holds no slot, and a download is canceled only while no slot has been
\* released yet (the slots taken are then FirstSlot, FirstSlot + 1, ... in
\* the order of the starts)
InitFill ==
    /\ history = FillHistory
    /\ videos = FetchPage(FillHistory, [f \in 1..FillItems |-> NoLocal])
    /\ loading = <<>>
    /\ callbacks = <<"video_updated">>
    /\ last = Last("add_download_callback", 0, FALSE, 0, <<>>, <<>>)
    /\ InitList(MaxHeight)
    /\ InitThreads

Unstarted == {fid \in FileIdsOf(videos) : SlotsOf(loading, fid) = {}}

NextItem ==
    LET unstarted == Unstarted
    IN  videos[FirstIndex(videos, LAMBDA v : v.file_id \in unstarted)].file_id

InStartOrder == \A i \in 1..Len(loading) : loading[i].slot = FirstSlot + i - 1

FillStart ==
    /\ Unstarted # {}
    /\ \E fails \in BOOLEAN : download_video(Live(NextItem), ~fails)
    /\ Rest

FillCancel ==
    /\ InStartOrder
    /\ \E i \in 1..Len(loading), fails \in BOOLEAN :
           cancel_download_video(loading[i].video, ~fails)
    /\ Rest

NextFill ==
    \/ FillStart
    \/ FillCancel

SpecFill == InitFill /\ [][NextFill]_vars

\* the video list over a chat of ViewItems videos, none of them downloaded:
\* at startup the remote client lists any number of them; the keys that move
\* the focus, and _scroll for every delta of -MaxDelta..MaxDelta
InitScroll ==
    /\ history = ViewHistory
    /\ \E messages \in Pages(ViewHistory, ListLimit, 0) :
           videos = FetchPage(messages, [f \in 1..ViewItems |-> NoLocal])
    /\ loading = <<>>
    /\ callbacks = <<"video_updated">>
    /\ last = Last("add_download_callback", 0, FALSE, 0, <<>>, <<>>)
    /\ \E h \in 1..MaxHeight : InitList(h)
    /\ InitThreads

KeyDown == key_down

KeyUp == key_up

KeyPageDown == key_pagedown

KeyPageUp == key_pageup

KeyHome == key_home

KeyEnd == key_end

MoveBy == \E delta \in (-MaxDelta)..MaxDelta : scroll("_scroll", delta)

NextScroll ==
    \/ KeyDown
    \/ KeyUp
    \/ KeyPageDown
    \/ KeyPageUp
    \/ KeyHome
    \/ KeyEnd
    \/ MoveBy

SpecScroll == InitScroll /\ [][NextScroll]_vars

\* the same list with the mouse: a click on any row of the widget
OnClick == \E y \in 0..(size_height - 1) : on_click(y)

NextClick ==
    \/ KeyDown
    \/ KeyUp
    \/ KeyPageDown
    \/ KeyPageUp
    \/ KeyHome
    \/ KeyEnd
    \/ OnClick

SpecClick == InitScroll /\ [][NextClick]_vars

\* the same list with key d: at startup the remote client lists at most
\* MaxViewItems videos, and the focused one can be deleted
InitView ==
    /\ history = ViewHistory
    /\ \E messages \in Pages(ViewHistory, MaxViewItems, 0) :
           videos = FetchPage(messages, [f \in 1..ViewItems |-> NoLocal])
    /\ loading = <<>>
    /\ callbacks = <<"video_updated">>
    /\ last = Last("add_download_callback", 0, FALSE, 0, <<>>, <<>>)
    /\ \E h \in 1..MaxHeight : InitList(h)
    /\ InitThreads

KeyD == \E fails \in BOOLEAN : key_d(~fails)

NextView ==
    \/ KeyDown
    \/ KeyUp
    \/ KeyPageDown
    \/ KeyPageUp
    \/ KeyHome
    \/ KeyEnd
    \/ MoveBy
    \/ KeyD

SpecView == InitView /\ [][NextView]_vars

\* the two threads on the whole list of the chat, nothing downloaded
InitConcurrent ==
    /\ history = History
    /\ videos = FetchPage(History, [f \in FileIds |-> NoLocal])
    /\ loading = <<>>
    /\ callbacks = <<"video_updated">>
    /\ last = Last("add_download_callback", 0, FALSE, 0, <<>>, <<>>)
    /\ InitList(MaxHeight)
    /\ InitThreads

NextThreads ==
    \/ HandlerGet
    \/ HandlerPath
    \/ HandlerSize
    \/ HandlerCompleted
    \/ HandlerNext
    \/ HandlerCompare
    \/ HandlerPop
    \/ HandlerNotify
    \/ ControlDownload
    \/ ControlScan
    \/ ControlStore
    \/ ControlCall
    \/ ControlCancel
    \/ ControlNext
    \/ ControlCompare
    \/ ControlPop
    \/ ControlCancelCall

SpecThreads == InitConcurrent /\ [][NextThreads]_vars

---------------------------------------------------------------------------
(* Properties *)

\* the smallest slot number that is no key of ld
LowestFree(ld) == CHOOSE m \in Slots \ Keys(ld) : \A j \in Slots \ Keys(ld) : m <= j

\* C1: in every state reachable by download_video, cancel_download_video and
\* file events, each slot number is bound to at most one item and each item
\* is bound to at most one slot number (a second download_video of an item
\* that holds a slot gives it no second slot).
C1_OneSlotPerItem ==
    /\ \A i, j \in 1..Len(loading) : loading[i].slot = loading[j].slot => i = j
    /\ \A fid \in FileIds : Cardinality(SlotsOf(loading, fid)) <= 1

\* C2: starting from an empty slot map, 31 consecutive starts of distinct
\* items take the slots 2, 3, ..., 32 in that order; a start made while all 31
\* slots are occupied returns None, leaves the slot map unchanged and issues
\* no downloadFile call; so no more than 31 slots are ever occupied.
C2_Step ==
    /\ Len(loading') <= 31
    /\ (\A i \in 1..Len(loading') : loading'[i].video.file_id = i)
           => (\A i \in 1..Len(loading') : loading'[i].slot = i + 1)
    /\ (last'.op = "download_video" /\ Len(loading) < 31)
           => /\ Len(loading') = Len(loading) + 1
              /\ ~last'.raised => /\ last'.result = loading'[Len(loading')].slot
                                  /\ last'.calls = <<Call("downloadFile", last'.file_id,
                                                          last'.result, <<>>)>>
    /\ (last'.op = "download_video" /\ Len(loading) = 31)
           => /\ loading' = loading
              /\ last'.result = 0
              /\ ~last'.raised
              /\ last'.calls = <<>>

C2_FillUp == [][C2_Step]_vars

\* 31 starts of the items 1..31 in this order, then a start that returned None
C2_Witness ==
    /\ Len(loading) = 31
    /\ \A i \in 1..31 : loading[i].video.file_id = i /\ loading[i].slot = i + 1
    /\ last.op = "download_video" /\ last.result = 0 /\ ~last.raised
    /\ last.file_id = 32

\* C3: whenever a slot is free, download_video binds the item to the smallest
\* free number of 2..32, whatever starts and releases came before; after
\* every item was released the next start takes slot 2.
C3_TakesLowest ==
    (last'.op = "download_video" /\ Keys(loading) # Slots)
        => /\ loading' = Append(loading, [slot |-> LowestFree(loading),
                                          video |-> loading'[Len(loading')].video])
           /\ loading'[Len(loading')].video.file_id = last'.file_id
           /\ ~last'.raised => last'.result = LowestFree(loading)
           /\ loading = <<>> => Keys(loading') = {2}

C3_LowestFreeFirst == [][C3_TakesLowest]_vars

\* slot 2 was released while slot 3 stayed bound, and the last start took 2
C3_Witness ==
    /\ last.op = "download_video" /\ last.result = 2
    /\ Keys(loading) = {2, 3}
    /\ loading[1].slot = 3

\* C4: when the downloadFile call of download_video fails, the slot reserved
\* for it is released before the error reaches the caller: after the failed
\* call the item occupies no slot and the slot map is as before the call.
C4_FailedStartReleases ==
    [][(last'.op = "download_video" /\ last'.raised)
          => /\ loading' = loading
             /\ SlotsOf(loading', last'.file_id) = {}]_vars

\* C5: for a listed item of expected size E that holds a slot, the slot stays
\* bound across every event whose downloaded_size differs from E and is freed
\* by the event whose downloaded_size equals E (E = 2: of the events 0, 1, 2
\* only the third completes the item and frees the slot).
C5_Step ==
    (/\ last'.op = "update_file_handler"
     /\ HasVideo(videos, last'.file_id)
     /\ SlotsOf(loading, last'.file_id) # {})
        => IF last'.local.downloaded_size = VideoOf(videos, last'.file_id).expected_size
           THEN SlotsOf(loading', last'.file_id) = {}
           ELSE loading' = loading

C5_FreedByCompletion == [][C5_Step]_vars

\* C6: every slot bound by download_video is freed once the download
\* completes or is canceled, whatever list_videos, load_next and
\* delete_message calls came in between: the event that reports
\* downloaded_size = expected_size for the file of a slot frees that slot, and
\* so does cancel_download_video for the item.  (For the third way out, the
\* failed downloadFile call, see C4.)
C6_Step ==
    \A i \in 1..Len(loading) :
        LET e == loading[i]
        IN  (\/ /\ last'.op = "update_file_handler"
                /\ last'.file_id = e.video.file_id
                /\ last'.local.downloaded_size = Deref(videos, e.video).expected_size
             \/ /\ last'.op = "cancel_download_video"
                /\ last'.file_id = e.video.file_id)
                => \A j \in 1..Len(loading') : loading'[j] # e

C6_SlotEventuallyFreed == [][C6_Step]_vars

\* C7: an event for a file id that is not in the catalog changes nothing: the
\* catalog, the items, the slot map and the subscriber list stay as they
\* are, no subscriber is called and nothing is raised.
C7_Step ==
    (last'.op = "update_file_handler" /\ ~HasVideo(videos, last'.file_id))
        => /\ videos' = videos
           /\ loading' = loading
           /\ callbacks' = callbacks
           /\ history' = history
           /\ last'.notified = <<>>
           /\ ~last'.raised

C7_UntrackedIsNoOp == [][C7_Step]_vars

\* an event for a file of the chat that is not listed, with a subscriber
\* registered and a slot bound
C7_Witness ==
    /\ last.op = "update_file_handler"
    /\ last.file_id \in FileIds
    /\ ~HasVideo(videos, last.file_id)
    /\ last.local.downloaded_size > 0
    /\ callbacks # <<>>
    /\ loading # <<>>

\* C8: for each event of a listed item every subscribed callback is called, in
\* subscription order; a callback that raises does not keep the ones after it
\* from being called, and nothing is raised out of the handler.
C8_AllSubscribersCalled ==
    (last.op = "update_file_handler" /\ HasVideo(videos, last.file_id))
        => /\ last.notified = callbacks
           /\ ~last.raised

\* C9: cancel_download_video frees the item's slot before it issues the
\* cancelDownloadFile call, so after a failed call the item holds no slot;
\* when the item holds no slot at the call, the slot map is left unchanged.
C9_Step ==
    last'.op = "cancel_download_video"
        => /\ last'.raised => SlotsOf(loading', last'.file_id) = {}
           /\ SlotsOf(loading, last'.file_id) = {} => loading' = loading

C9_CancelFreesFirst == [][C9_Step]_vars

\* C10: an event for an item that is in the catalog and holds no slot (a
\* canceled one) is handled like any other: it sets the item's
\* downloaded_size and local_path, leaves the other items and the slot map
\* as they are and calls the subscribers, also when it reports
\* downloaded_size = expected_size and when it comes again.
C10_Step ==
    (/\ last'.op = "update_file_handler"
     /\ HasVideo(videos, last'.file_id)
     /\ SlotsOf(loading, last'.file_id) = {})
        => /\ loading' = loading
           /\ VideoOf(videos', last'.file_id) =
                  [VideoOf(videos, last'.file_id) EXCEPT
                      !.downloaded_size = last'.local.downloaded_size,
                      !.local_path = IF last'.local.path = "" THEN None
                                     ELSE last'.local.path]
           /\ Len(videos') = Len(videos)
           /\ \A k \in 1..Len(videos) :
                  videos[k].file_id # last'.file_id => videos'[k] = videos[k]
           /\ last'.notified # <<>>

C10_LateEventAccepted == [][C10_Step]_vars

\* the event that completes an item holding no slot, while the other item
\* holds one
C10_Witness ==
    /\ last.op = "update_file_handler"
    /\ HasVideo(videos, last.file_id)
    /\ SlotsOf(loading, last.file_id) = {}
    /\ Completed(VideoOf(videos, last.file_id))
    /\ last.local.downloaded_size > 0
    /\ loading # <<>>

\* the operations that move the focus of the list
MoveOps == {"_scroll", "key_down", "key_up", "key_pagedown", "key_pageup",
            "key_home", "key_end"}

\* C11: on a list of fixed size n >= 1 with h >= 1 rows, after every call of
\* _scroll (any delta, also with |delta| > n), key_home and key_end:
\* 0 <= render_offset <= focused_index <= render_offset + h - 1 and
\* 0 <= focused_index <= n - 1.
C11_FocusInWindow ==
    (last.op \in MoveOps /\ Len(items) >= 1 /\ available_height >= 1)
        => /\ 0 <= render_offset
           /\ render_offset <= focused_index
           /\ focused_index <= render_offset + available_height - 1
           /\ 0 <= focused_index
           /\ focused_index <= Len(items) - 1

\* a move back by more than the size of the list that ends on a scrolled list
C11_Witness ==
    /\ last.op = "_scroll"
    /\ last.delta < -Len(items)
    /\ Len(items) > available_height
    /\ render_offset > 0
    /\ focused_index = Len(items) - 1

\* C12: when the deleteMessages call of delete_message fails, delete_message
\* raises and the catalog is as before the call: the item is still there and
\* no other item was removed.
C12_Step ==
    (last'.op = "delete_message" /\ last'.failed)
        => /\ last'.raised
           /\ videos' = videos
           /\ loading' = loading
           /\ history' = history

C12_FailedDeleteKeepsCatalog == [][C12_Step]_vars

\* a failed delete of a listed item, with both items listed
C12_Witness ==
    /\ last.op = "delete_message"
    /\ last.failed
    /\ HasVideo(videos, last.file_id)
    /\ Len(videos) = 2

\* C13: delete_message(video) issues exactly one remote call, deleteMessages,
\* whose message_ids are the video's message_id followed by the sibling ids
\* recorded in its album, and on success removes the catalog's entry of its
\* file_id and no other; for the video that is alone in an album with two
\* text messages the one call carries all three ids.
C13_Step ==
    last'.op = "delete_message"
        => LET v == last'.video
           IN  /\ last'.calls = <<Call("deleteMessages", 0, 0,
                                       <<v.message_id>> \o v.album.ids)>>
               /\ (v.album.some /\ Len(v.album.ids) = 2)
                      => Len(last'.calls[1].message_ids) = 3
               /\ ~last'.raised
                      => /\ Len(videos') = Len(videos) - 1
                         /\ ~HasVideo(videos', v.file_id)
                         /\ \A k \in 1..Len(videos) :
                                videos[k].file_id # v.file_id
                                    => \E j \in 1..Len(videos') : videos'[j] = videos[k]

C13_DeleteCoversAlbum == [][C13_Step]_vars

\* the video of the album of three was deleted with one call for the ids 4, 5, 3
\* and the other item is still listed
C13_Witness ==
    /\ last.op = "delete_message"
    /\ ~last.raised
    /\ last.video.album.some
    /\ last.calls[1].message_ids = <<4, 5, 3>>
    /\ Len(videos) = 1
    /\ ~HasVideo(videos, last.file_id)

\* C14: the catalog holds one item per file id: no two entries share a
\* file_id, and after load_next merged a page into a non-empty catalog the
\* file ids of the catalog are those it had together with those of the page,
\* each once; an entry whose file id the page repeats keeps its place and is
\* updated, no second entry is added.
C14_Step ==
    /\ \A i, j \in 1..Len(videos') : videos'[i].file_id = videos'[j].file_id => i = j
    /\ (last'.op = "load_next" /\ ~last'.raised /\ videos # <<>>)
           => /\ FileIdsOf(videos') = FileIdsOf(videos) \cup last'.seen
              /\ Len(videos') = Cardinality(FileIdsOf(videos) \cup last'.seen)
              /\ \A k \in 1..Len(videos) : videos'[k].file_id = videos[k].file_id

C14_OneItemPerFile == [][C14_Step]_vars

\* load_next fetched a page whose only video is file 1, which the catalog
\* listed already (nothing was deleted: every list of this chat starts with
\* file 1); the entry now carries the message of the page
C14_Witness ==
    /\ last.op = "load_next"
    /\ ~last.raised
    /\ Len(history) = Len(History)
    /\ last.seen = {1}
    /\ Len(videos) = 2
    /\ VideoOf(videos, 1).message_id = 2

\* C15: list_videos and load_next never replace an item that occupies a slot
\* and never overwrite its downloaded_size or local_path: after the fetch the
\* slot still refers to the item the catalog holds, with the fields it had.
C15_Step ==
    (last'.op \in {"list_videos", "load_next"} /\ ~last'.raised)
        => /\ loading' = loading
           /\ \A i \in 1..Len(loading) :
                  (~loading[i].video.stale /\ HasVideo(videos, loading[i].video.file_id))
                      => VideoOf(videos', loading[i].video.file_id)
                             = VideoOf(videos, loading[i].video.file_id)

C15_RefetchKeepsActive == [][C15_Step]_vars

\* C17: while an item holds a slot, its downloaded_size does not decrease
\* from one handled event to the next, whatever events are delivered.
C17_Step ==
    (/\ last.op = "update_file_handler"
     /\ last'.op = "update_file_handler"
     /\ last'.file_id = last.file_id
     /\ HasVideo(videos, last.file_id)
     /\ SlotsOf(loading, last.file_id) # {})
        => VideoOf(videos', last.file_id).downloaded_size
               >= VideoOf(videos, last.file_id).downloaded_size

C17_SizeNeverDecreases == [][C17_Step]_vars

\* C18: when an event completes an item that holds a slot, the slot is
\* released before the subscribers are called: the item holds no slot when
\* they are called.
C18_Step ==
    (/\ last'.op = "update_file_handler"
     /\ SlotsOf(loading, last'.file_id) # {}
     /\ HasVideo(videos', last'.file_id)
     /\ Completed(VideoOf(videos', last'.file_id))
     /\ last'.notified # <<>>)
        => last'.slots = {}

C18_ReleasedBeforeNotify == [][C18_Step]_vars

\* the operations that call _scroll(delta)
ScrollOps == {"_scroll", "key_down", "key_up", "key_pagedown", "key_pageup"}

\* C19: on a list of n >= 1 items with a valid focus, _scroll(delta) sets
\* focused_index to the number of 0..n-1 that is congruent to
\* n + focused_index + delta modulo n, for every delta, and moves
\* render_offset only as far as needed to show it: to new - h + 1 when
\* new > render_offset + h - 1, to new when new < render_offset, not at all
\* otherwise; with h = 5, 12 items, focus 0 and offset 0, _scroll(7) gives
\* focus 7 and offset 3.
C19_Step ==
    (/\ last'.op \in ScrollOps
     /\ items # <<>>
     /\ focused_index # NoFocus
     /\ focused_index < Len(items))
        => LET n     == Len(items)
               h     == available_height
               new   == focused_index'
               delta == last'.delta
           IN  /\ new \in 0..(n - 1)
               /\ \E q \in (-(MaxDelta + MaxHeight))..(MaxDelta + MaxHeight + 2) :
                      n + focused_index + delta = q * n + new
               /\ render_offset' =
                      IF new > render_offset + h - 1 THEN new - h + 1
                      ELSE IF new < render_offset THEN new
                      ELSE render_offset
               /\ (h = 5 /\ n = 12 /\ focused_index = 0 /\ render_offset = 0 /\ delta = 7)
                      => (new = 7 /\ render_offset' = 3)

C19_ScrollWraps == [][C19_Step]_vars

\* _scroll(7) on 12 items shown 5 at a time has left focus 7 and offset 3
C19_Witness ==
    /\ last.op = "_scroll"
    /\ last.delta = 7
    /\ Len(items) = 12
    /\ available_height = 5
    /\ focused_index = 7
    /\ render_offset = 3

\* C20: _scroll(delta) on an empty list sets focused_index to None; on a
\* non-empty list whose focused item has been removed (key d, which calls
\* _scroll(0) after the removal), whether or not the old index is still in
\* range, it sets render_offset = 0 and focused_index = 0.
C20_Step ==
    /\ (last'.op \in ScrollOps /\ items = <<>>) => focused_index' = NoFocus
    /\ (last'.op = "delete_message" /\ ~last'.raised)
           => IF items' = <<>> THEN focused_index' = NoFocus
              ELSE focused_index' = 0 /\ render_offset' = 0

C20_RemovedFocusResets == [][C20_Step]_vars

\* a thread in the middle of the loop of _remove_from_queue, which scans
\* _loading and compares the items; the control thread in the middle of
\* download_video's scan and assignment
HandlerInLoop == handler.pc \in {"next", "compare", "pop"}

ControlInLoop == control.pc \in {"next", "compare", "pop"}

ControlInScan == control.pc \in {"scan", "store"}

\* C16: with the handler running concurrently with download_video and
\* cancel_download_video of the control thread, the handler's update and
\* removal are one atomic step for the control thread and the other way
\* round: no thread changes _loading while the other is in the middle of
\* scanning or updating it, and no operation is cut short by the other
\* thread's change (download_video and cancel_download_video raise only for a
\* failed remote call, the handler only for a failing subscriber).
C16_Step ==
    /\ (handler'.pc # handler.pc /\ loading' # loading)
           => ~(ControlInLoop \/ ControlInScan)
    /\ (control'.pc # control.pc /\ loading' # loading) => ~HandlerInLoop
    /\ (last' # last /\ last'.raised)
           => IF last'.op = "update_file_handler" THEN last'.notified # <<>>
              ELSE last'.calls # <<>>

C16_HandlerAtomic == [][C16_Step]_vars

\* C21: a click on row `row` of the body of the list (the rows between the
\* two border rows, 0-based: row = event.y - 1) sets focused_index to
\* row + render_offset when that index is within the list, and otherwise
\* leaves focused_index as it was; render_offset is never changed; the
\* index it focuses is that of the item drawn on the clicked row and lies in
\* render_offset .. render_offset + available_height - 1, also in the video
\* list, whose body starts with the header row of its table.
C21_Index ==
    (last'.op = "on_click" /\ last'.y \notin {0, size_height - 1})
        => LET row == last'.y - 1
           IN  /\ render_offset' = render_offset
               /\ focused_index' = IF row + render_offset < Len(items)
                                   THEN row + render_offset
                                   ELSE focused_index

C21_Rendered ==
    (/\ last'.op = "on_click"
     /\ last'.y \notin {0, size_height - 1}
     /\ last'.y - 1 + render_offset < Len(items))
        => /\ focused_index' = RenderedAt(items, render_offset, available_height, last'.y)
           /\ render_offset' <= focused_index'
           /\ focused_index' <= render_offset' + available_height - 1

C21_Step == C21_Index /\ C21_Rendered

C21_ClickFocusesRow == [][C21_Step]_vars

\* the first half of C21 alone: the index arithmetic of on_click
C21_ClickIndex == [][C21_Index]_vars

\* the message id of the oldest item of a non-empty catalog: message ids grow
\* with time, the oldest item is the one with the smallest
OldestMessageId(vs) ==
    CHOOSE m \in {vs[i].message_id : i \in 1..Len(vs)} :
        \A i \in 1..Len(vs) : m <= vs[i].message_id

\* C22: load_next on an empty catalog makes the initial fetch (no anchor); on
\* a non-empty catalog it asks for the page anchored at the message id of the
\* oldest loaded item and merges it into the catalog, so that no load_next
\* is anchored at an item that is not the oldest loaded one, also after a
\* page that repeated file ids the catalog already held.
C22_Step ==
    (last'.op = "load_next" /\ ~last'.raised)
        => IF videos = <<>>
           THEN /\ last'.calls[1].message_ids = <<>>
                /\ FileIdsOf(videos') = last'.seen
           ELSE /\ last'.calls[1].message_ids = <<OldestMessageId(videos)>>
                /\ FileIdsOf(videos') = FileIdsOf(videos) \cup last'.seen

C22_AnchorIsOldest == [][C22_Step]_vars

\* C22 without the anchor: what load_next fetches into the catalog
C22_Merge ==
    (last'.op = "load_next" /\ ~last'.raised)
        => IF videos = <<>>
           THEN /\ last'.calls[1].message_ids = <<>>
                /\ FileIdsOf(videos') = last'.seen
           ELSE /\ last'.calls[1].message_ids = <<LastMessageId(videos)>>
                /\ FileIdsOf(videos') = FileIdsOf(videos) \cup last'.seen

C22_LoadNextMerges == [][C22_Merge]_vars

\* the anchor of load_next is stuck: a load_next on a catalog whose last item
\* is not its oldest one has left the catalog as it was
C22_Stuck ==
    /\ last.op = "load_next"
    /\ ~last.raised
    /\ last.seen # {}
    /\ videos # <<>>
    /\ last.calls[1].message_ids = <<LastMessageId(videos)>>
    /\ LastMessageId(videos) # OldestMessageId(videos)

\* C23: in every reachable state each item bound to a slot is the object the
\* catalog holds for its file id: no slot is bound to an item that
\* delete_message has removed from the catalog, or that list_videos or
\* load_next has replaced there by a new object.
C23_SlotsHoldCatalogItems ==
    \A i \in 1..Len(loading) :
        /\ ~loading[i].video.stale
        /\ HasVideo(videos, loading[i].video.file_id)

\* C24: in every reachable state no completed item occupies a slot: an item
\* bound to a slot has downloaded_size # expected_size, also after
\* download_video of an item that was fetched completed.
C24_NoCompletedInSlot ==
    \A i \in 1..Len(loading) : ~Completed(Deref(videos, loading[i].video))

=============================================================================
